---- MODULE Spec2Model ----
(***************************************************************************)
(* A model of TileStache/Goodies/Providers/PatchMBtiles.py: one MBTiles    *)
(* tileset file (a SQLite database with the tables metadata and tiles),    *)
(* the module functions that create, probe, read and write it, and the     *)
(* Provider, TileResponse and Cache classes built on them.                 *)
(*                                                                         *)
(* The source is Python 2 code (it calls the builtin buffer and looks up   *)
(* byte strings in dictionaries keyed by str), so values follow Python 2:  *)
(* str and bytes are one type.  Python's None is the empty tuple <<>> and  *)
(* a present value v is <<v>>, so that b'' (<< <<>> >>) and None differ.   *)
(*                                                                         *)
(* Spec has callers that run one after another, each call one step;        *)
(* SpecConc has the processes of Procs inside the calls at the same time.  *)
(***************************************************************************)
EXTENDS Integers, Sequences, FiniteSets, TLC

\* Longest tile payload, in bytes, that a caller writes.
MaxLen == 1

\* Deepest zoom level over which the row mapping is examined as a function.
MaxMapZoom == 4

None == <<>>

Some(v) == <<v>>

\* Python truth value of a str / bytes / buffer object: empty is false.
Truthy(v) == Len(v) > 0

\* The idiom `x and x[0] or None` applied to the result of fetchone(),
\* which is None or a one-column row.
AndOr(fetched) == IF fetched # None /\ Truthy(fetched[1]) THEN Some(fetched[1]) ELSE None

\* ModestMaps.Core.Coordinate(row, column, zoom)
Coordinate(row, column, zoom) == [row |-> row, column |-> column, zoom |-> zoom]

\* The coordinates callers use: the single tile of zoom 0 and two tiles of
\* zoom 1 that differ in column and in row.
Coords == {Coordinate(0, 0, 0), Coordinate(0, 0, 1), Coordinate(1, 1, 1)}

\* The payloads callers write: b'', b'\x01', b'\x01\x02', ...
Payloads == {[i \in 1..n |-> i] : n \in 0..MaxLen}

\* Formats passed to create_tileset: the four it accepts and one it rejects.
CreateFormats == {"png", "jpg", "json", "pbf", "gif"}

\* Formats a Cache is configured with.
CacheFormats == {"PNG", "jpg", "JPEG"}

\* Arguments a caller constructs a TileResponse with.
ResponseFormats == {None}

ResponseContents == {None, Some(<<1>>)}

\* Formats a response consumer asks TileResponse.save for.
SaveFormats == {"png", "JPEG"}

\* Extensions a caller asks Provider.getTypeByExtension about: case variants
\* of the four it knows, and one it does not know.
Extensions == {"PNG", "jpg", "JPG", "json", "PBF", "gif"}

\* The processes that call into the module at the same time on one path.
Procs == {"a", "b", "c"}

\* The coordinate the concurrent callers put, get and delete.
RacedCoord == Coordinate(0, 0, 1)

\* str.lower() on the strings that occur.
Lower(s) ==
    CASE s = "PNG" -> "png"
      [] s = "JPEG" -> "jpeg"
      [] s = "JPG" -> "jpg"
      [] s = "JSON" -> "json"
      [] s = "PBF" -> "pbf"
      [] OTHER -> s

NoException == "none"

VARIABLES
    db,       \* the SQLite file at the tileset path, as committed
    cache,    \* the Cache object, None until one is constructed
    last,     \* the most recent call: its arguments and its outcome
    written,  \* per coordinate, the payload callers last put and have not removed
    callers   \* per concurrent caller, the call it is in and how far it has come

vars == <<db, cache, last, written, callers>>

\* A path that was never created.
NoFile == [file |-> FALSE, tables |-> {}, indexes |-> {}, metadata |-> {}, tiles |-> {}]

\* sqlite3.connect(filename): SQLite creates the file when it is missing.
connect(d) == [d EXCEPT !.file = TRUE]

\* CREATE TABLE for an existing table, kept only to compare with CreateTable:
\* the table is dropped and created again.
CreateTableAnew(d, t) ==
    [db |-> IF t = "metadata"
            THEN [d EXCEPT !.tables = @ \cup {t}, !.metadata = {}]
            ELSE [d EXCEPT !.tables = @ \cup {t}, !.tiles = {}, !.indexes = {}],
     raised |-> NoException]

\* db.execute('CREATE TABLE t (...)'): it fails when the table exists, and
\* otherwise takes effect at once (the sqlite3 module runs DDL outside of any
\* transaction).
CreateTable(d, t) ==
    IF t \in d.tables
    THEN [db |-> d, raised |-> "OperationalError"]
    ELSE [db |-> [d EXCEPT !.tables = @ \cup {t}], raised |-> NoException]

SameKey(r, s) ==
    /\ r.zoom_level = s.zoom_level
    /\ r.tile_column = s.tile_column
    /\ r.tile_row = s.tile_row

\* db.execute('CREATE UNIQUE INDEX coord ON tiles (zoom_level, tile_column, tile_row)')
CreateUniqueIndex(d) ==
    IF "coord" \in d.indexes \/ "tiles" \notin d.tables
    THEN [db |-> d, raised |-> "OperationalError"]
    ELSE IF \E r, s \in d.tiles : r # s /\ SameKey(r, s)
    THEN [db |-> d, raised |-> "IntegrityError"]
    ELSE [db |-> [d EXCEPT !.indexes = @ \cup {"coord"}], raised |-> NoException]

\* db.execute('INSERT INTO metadata VALUES (?, ?)', (name, value)) for each
\* row of the sequence in turn, inside one transaction: name is the primary key.
RECURSIVE InsertMetadata(_, _)
InsertMetadata(d, rows) ==
    IF rows = <<>> THEN [db |-> d, raised |-> NoException]
    ELSE IF "metadata" \notin d.tables THEN [db |-> d, raised |-> "OperationalError"]
    ELSE IF \E m \in d.metadata : m.name = Head(rows).name
         THEN [db |-> d, raised |-> "IntegrityError"]
    ELSE InsertMetadata([d EXCEPT !.metadata = @ \cup {Head(rows)}], Tail(rows))

MetadataRow(name, value) == [name |-> name, value |-> value]

\* create_tileset with the connection opened ahead of the test of format, kept
\* only to compare with create_tileset: a rejected format leaves the file that
\* connect made.
create_tileset_connect_first(d, name, type, version, description, format, bounds) ==
    [db |-> connect(d), raised |-> "Exception"]

\* create_tileset(filename, name, type, version, description, format, bounds):
\* the three CREATE statements commit one by one; the INSERTs are committed
\* together by db.commit(), and lost if one of them raises.
create_tileset(d, name, type, version, description, format, bounds) ==
    IF format \notin {"png", "jpg", "json", "pbf"}
    THEN [db |-> d, raised |-> "Exception"]
    ELSE
    LET c1 == CreateTable(connect(d), "metadata") IN
    IF c1.raised # NoException THEN c1 ELSE
    LET c2 == CreateTable(c1.db, "tiles") IN
    IF c2.raised # NoException THEN c2 ELSE
    LET c3 == CreateUniqueIndex(c2.db) IN
    IF c3.raised # NoException THEN c3 ELSE
    LET rows == << MetadataRow("name", name), MetadataRow("type", type),
                   MetadataRow("version", version),
                   MetadataRow("description", description),
                   MetadataRow("format", format) >>
                \o (IF bounds # None THEN << MetadataRow("bounds", bounds[1]) >> ELSE <<>>)
        ins == InsertMetadata(c3.db, rows)
    IN IF ins.raised # NoException
       THEN [db |-> c3.db, raised |-> ins.raised]
       ELSE ins

\* tileset_exists without its second SELECT, kept only to compare with
\* tileset_exists: the tiles table is not asked for.
tileset_exists_metadata_only(d) ==
    IF ~d.file
    THEN [db |-> d, raised |-> NoException, value |-> FALSE]
    ELSE [db |-> connect(d), raised |-> NoException, value |-> "metadata" \in d.tables]

\* tileset_exists(filename)
tileset_exists(d) ==
    IF ~d.file
    THEN [db |-> d, raised |-> NoException, value |-> FALSE]
    ELSE [db |-> connect(d), raised |-> NoException,
          value |-> ("metadata" \in d.tables /\ "tiles" \in d.tables)]

\* fetchone() of "SELECT value FROM metadata WHERE name = key": a row or None.
FetchMetadata(d, key) ==
    IF \E m \in d.metadata : m.name = key
    THEN Some((CHOOSE m \in d.metadata : m.name = key).value)
    ELSE None

\* tileset_info(filename): None, or the list of six values, each passed
\* through `value and value[0] or None`.
tileset_info(d) ==
    LET e == tileset_exists(d) IN
    IF ~e.value
    THEN [db |-> e.db, raised |-> NoException, value |-> None]
    ELSE [db |-> connect(e.db), raised |-> NoException,
          value |-> Some([i \in 1..6 |->
                     AndOr(FetchMetadata(e.db,
                        <<"name", "type", "version", "description", "format", "bounds">>[i]))])]

\* The row computed in list_tiles, kept only to compare with list_tiles_row:
\* the stored tile_row is handed back as it is.
list_tiles_row_stored(y, z) == y

\* The row computed in list_tiles from a stored tile_row y at zoom z.
list_tiles_row(y, z) == (2^z - 1) - y

\* tile_row as computed in get_tile.
get_tile_row(coord) == (2^coord.zoom - 1) - coord.row

\* tile_row as computed in delete_tile.
delete_tile_row(coord) == (2^coord.zoom - 1) - coord.row

\* tile_row as computed in put_tile, kept only to compare with put_tile_row:
\* the row is stored as given.
put_tile_row_unflipped(coord) == coord.row

\* tile_row as computed in put_tile.
put_tile_row(coord) == (2^coord.zoom - 1) - coord.row

TileRow(z, x, y, data) ==
    [zoom_level |-> z, tile_column |-> x, tile_row |-> y, tile_data |-> data]

\* The orders in which a SELECT without ORDER BY may return the rows of a table.
Orders(rows) ==
    {s \in [1..Cardinality(rows) -> rows] :
        \A i, j \in 1..Cardinality(rows) : i # j => s[i] # s[j]}

\* list_tiles(filename), with the order in which SQLite returns the rows.
list_tiles(d, order) ==
    IF "tiles" \notin d.tables
    THEN [db |-> connect(d), raised |-> "OperationalError", value |-> None]
    ELSE [db |-> connect(d), raised |-> NoException,
          value |-> Some([i \in 1..Len(order) |->
                     Coordinate(list_tiles_row(order[i].tile_row, order[i].zoom_level),
                                order[i].tile_column, order[i].zoom_level)])]

\* The formats dictionary of get_tile with 'jpg' mapped as getTypeByExtension
\* maps it, kept only to compare with get_tile_formats.
get_tile_formats_jpg ==
    (Some("png") :> Some("image/png")) @@ (Some("jpg") :> Some("image/jpg"))
    @@ (Some("json") :> Some("application/json"))
    @@ (Some("pbf") :> Some("application/x-protobuf")) @@ (None :> None)

\* The formats dictionary of get_tile.
get_tile_formats ==
    (Some("png") :> Some("image/png")) @@ (Some("jpg") :> Some("image/jpeg"))
    @@ (Some("json") :> Some("application/json"))
    @@ (Some("pbf") :> Some("application/x-protobuf")) @@ (None :> None)

\* fetchone() of "SELECT tile_data FROM tiles WHERE zoom_level=? AND
\* tile_column=? AND tile_row=?": the first matching row or None.
FetchTile(d, z, x, y) ==
    LET found == {r \in d.tiles : r.zoom_level = z /\ r.tile_column = x /\ r.tile_row = y}
    IN IF found = {} THEN None ELSE Some((CHOOSE r \in found : TRUE).tile_data)

\* The first half of get_tile: the SELECT of the format and the lookup of
\* mime_type in formats.
get_tile_mime_type(d) ==
    IF "metadata" \notin d.tables
    THEN [raised |-> "OperationalError", value |-> None]
    ELSE
    LET format == AndOr(FetchMetadata(d, "format")) IN
    IF format \notin DOMAIN get_tile_formats
    THEN [raised |-> "KeyError", value |-> None]
    ELSE [raised |-> NoException, value |-> get_tile_formats[format]]

\* The second half of get_tile: the SELECT of tile_data and the value of
\* content.
get_tile_content(d, coord) ==
    IF "tiles" \notin d.tables
    THEN [raised |-> "OperationalError", value |-> None]
    ELSE [raised |-> NoException,
          value |-> AndOr(FetchTile(d, coord.zoom, coord.column, get_tile_row(coord)))]

\* get_tile(filename, coord)
get_tile(d, coord) ==
    LET d1 == connect(d)
        mime_type == get_tile_mime_type(d1)
        content == get_tile_content(d1, coord)
    IN IF mime_type.raised # NoException
       THEN [db |-> d1, raised |-> mime_type.raised, value |-> None]
       ELSE IF content.raised # NoException
       THEN [db |-> d1, raised |-> content.raised, value |-> None]
       ELSE [db |-> d1, raised |-> NoException,
             value |-> << mime_type.value, content.value >>]

\* db.execute('DELETE FROM tiles WHERE ...') inside the transaction that the
\* sqlite3 module opens before a DELETE: the connection's view afterwards.
DeleteFromTiles(d, z, x, y) ==
    IF "tiles" \notin d.tables
    THEN [db |-> d, raised |-> "OperationalError"]
    ELSE [db |-> [d EXCEPT !.tiles =
                    {r \in @ : ~(r.zoom_level = z /\ r.tile_column = x /\ r.tile_row = y)}],
          raised |-> NoException]

\* delete_tile(filename, coord): the function returns without db.commit(), so
\* the DELETE is rolled back when the connection is dropped and the file keeps
\* what it held.
delete_tile(d, coord) ==
    LET d1 == connect(d)
        txn == DeleteFromTiles(d1, coord.zoom, coord.column, delete_tile_row(coord))
    IN [db |-> d1, raised |-> txn.raised]

\* REPLACE INTO without the conflict handling of REPLACE, kept only to compare
\* with ReplaceIntoTiles: a plain insert that no unique index guards.
InsertIntoTiles(d, row) ==
    IF "tiles" \notin d.tables
    THEN [db |-> d, raised |-> "OperationalError"]
    ELSE [db |-> [d EXCEPT !.tiles = @ \cup {row}], raised |-> NoException]

\* db.execute('REPLACE INTO tiles (...) VALUES (?, ?, ?, ?)'): rows that
\* conflict with the new one on the unique index coord are deleted first.
ReplaceIntoTiles(d, row) ==
    IF "tiles" \notin d.tables
    THEN [db |-> d, raised |-> "OperationalError"]
    ELSE [db |-> [d EXCEPT !.tiles =
                    {r \in @ : ~("coord" \in d.indexes /\ SameKey(r, row))} \cup {row}],
          raised |-> NoException]

\* buffer(content): the bytes are stored as a BLOB.
buffer(content) == content

\* put_tile preceded by the CREATE statements of create_tileset, kept only to
\* compare with put_tile: a missing schema is made before the REPLACE.
put_tile_creating(d, coord, content) ==
    LET d1 == [connect(d) EXCEPT !.tables = @ \cup {"metadata", "tiles"},
                                 !.indexes = @ \cup {"coord"}]
    IN ReplaceIntoTiles(d1, TileRow(coord.zoom, coord.column,
                                    put_tile_row(coord), buffer(content)))

\* put_tile(filename, coord, content): REPLACE, then db.commit().
put_tile(d, coord, content) ==
    LET d1 == connect(d)
        txn == ReplaceIntoTiles(d1, TileRow(coord.zoom, coord.column,
                                            put_tile_row(coord), buffer(content)))
    IN IF txn.raised # NoException
       THEN [db |-> d1, raised |-> txn.raised]
       ELSE txn

\* TileResponse(format, content)
TileResponse(format, content) == [format |-> format, content |-> content]

\* The formats dictionary of Provider.renderTile without its 'image/jpeg'
\* entry, kept only to compare with renderTile_formats.
renderTile_formats_png_only == (Some("image/png") :> Some("PNG")) @@ (None :> None)

\* The formats dictionary of Provider.renderTile.
renderTile_formats ==
    (Some("image/png") :> Some("PNG")) @@ (Some("image/jpeg") :> Some("JPG"))
    @@ (None :> None)

\* Provider.renderTile(width, height, srs, coord) on the provider's tileset.
renderTile(d, coord) ==
    LET g == get_tile(d, coord) IN
    IF g.raised # NoException THEN g
    ELSE IF g.value[1] \notin DOMAIN renderTile_formats
    THEN [db |-> g.db, raised |-> "KeyError", value |-> None]
    ELSE [db |-> g.db, raised |-> NoException,
          value |-> Some(TileResponse(renderTile_formats[g.value[1]], g.value[2]))]

\* Provider.getTypeByExtension(extension).  The name KnownUnknown of its last
\* branch is bound nowhere in the module, so the raise statement ends in a
\* NameError.
getTypeByExtension(extension) ==
    CASE Lower(extension) = "json" ->
            [raised |-> NoException, value |-> Some(<<"application/json", "JSON">>)]
      [] Lower(extension) = "png" ->
            [raised |-> NoException, value |-> Some(<<"image/png", "PNG">>)]
      [] Lower(extension) = "jpg" ->
            [raised |-> NoException, value |-> Some(<<"image/jpg", "JPEG">>)]
      [] Lower(extension) = "pbf" ->
            [raised |-> NoException, value |-> Some(<<"application/x-protobuf", "PBF">>)]
      [] OTHER -> [raised |-> "NameError", value |-> None]

\* The test of TileResponse.save left out, kept only to compare with
\* FormatMismatch: every requested format is let through.
NoFormatCheck(self, format) == FALSE

\* The test that opens TileResponse.save.
FormatMismatch(self, format) ==
    self.format # None /\ Lower(format) # Lower(self.format[1])

\* TileResponse.save(out, format).  out is the caller's buffer; strict tells
\* whether its write() rejects None (io.BytesIO, cStringIO) or ignores it
\* (StringIO.StringIO).  value is what has been written to out.
TileResponse_save(self, format, strict) ==
    IF FormatMismatch(self, format)
    THEN [raised |-> "Exception", value |-> None]
    ELSE IF self.content = None
    THEN [raised |-> IF strict THEN "TypeError" ELSE NoException, value |-> None]
    ELSE [raised |-> NoException, value |-> self.content]

\* Cache.__init__ without its tileset_exists test, kept only to compare with
\* Cache_init: the tileset is created whatever the path holds.
Cache_init_unconditional(d, format, name) ==
    create_tileset(d, name, "baselayer", "0", "", Lower(format), None)

\* Cache.__init__(filename, format, name): the outcome, and whether a Cache
\* object came to exist.
Cache_init(d, format, name) ==
    LET e == tileset_exists(d) IN
    IF e.value
    THEN [db |-> e.db, raised |-> NoException]
    ELSE create_tileset(e.db, name, "baselayer", "0", "", Lower(format), None)

\* Cache.remove(layer, coord, format)
Cache_remove(d, coord) == delete_tile(d, coord)

\* Cache.read(layer, coord, format)
Cache_read(d, coord) ==
    LET g == get_tile(d, coord) IN
    IF g.raised # NoException THEN g
    ELSE [db |-> g.db, raised |-> NoException, value |-> g.value[2]]

\* Cache.save(body, layer, coord, format)
Cache_save(d, body, coord) == put_tile(d, coord, body)

\* A caller that is in no call.
Idle == [pc |-> "idle"]

Init ==
    /\ db = NoFile
    /\ cache = None
    /\ last = [op |-> "none", raised |-> NoException]
    /\ written = [c \in Coords |-> None]
    /\ callers = [p \in Procs |-> Idle]

\* A caller creates the tileset directly.
CreateTileset ==
    \E format \in CreateFormats :
        LET r == create_tileset(db, "roads", "overlay", "1.0", "All the roads",
                                format, Some("-180.0,-85,180,85"))
        IN /\ db' = r.db
           /\ last' = [op |-> "create_tileset", format |-> format, raised |-> r.raised]
           /\ UNCHANGED <<cache, written, callers>>

TilesetExists ==
    LET r == tileset_exists(db)
    IN /\ db' = r.db
       /\ last' = [op |-> "tileset_exists", raised |-> r.raised, value |-> r.value]
       /\ UNCHANGED <<cache, written, callers>>

TilesetInfo ==
    LET r == tileset_info(db)
    IN /\ db' = r.db
       /\ last' = [op |-> "tileset_info", raised |-> r.raised, value |-> r.value]
       /\ UNCHANGED <<cache, written, callers>>

ListTiles ==
    \E order \in Orders(db.tiles) :
        LET r == list_tiles(db, order)
        IN /\ db' = r.db
           /\ last' = [op |-> "list_tiles", raised |-> r.raised, value |-> r.value]
           /\ UNCHANGED <<cache, written, callers>>

\* The payloads of the records stored for coord when a call is made.
Held(coord) ==
    {r.tile_data : r \in {t \in db.tiles :
        /\ t.zoom_level = coord.zoom
        /\ t.tile_column = coord.column
        /\ t.tile_row = (2^coord.zoom - 1) - coord.row}}

\* What a completed write call leaves in written.
Record(raised, coord, payload) ==
    IF raised = NoException THEN [written EXCEPT ![coord] = payload] ELSE written

GetTile ==
    \E coord \in Coords :
        LET r == get_tile(db, coord)
        IN /\ db' = r.db
           /\ last' = [op |-> "get_tile", coord |-> coord,
                       raised |-> r.raised, value |-> r.value]
           /\ UNCHANGED <<cache, written, callers>>

DeleteTile ==
    \E coord \in Coords :
        LET r == delete_tile(db, coord)
        IN /\ db' = r.db
           /\ last' = [op |-> "delete_tile", coord |-> coord, raised |-> r.raised]
           /\ written' = Record(r.raised, coord, None)
           /\ UNCHANGED <<cache, callers>>

PutTile ==
    \E coord \in Coords, content \in Payloads :
        LET r == put_tile(db, coord, content)
        IN /\ db' = r.db
           /\ last' = [op |-> "put_tile", coord |-> coord, content |-> content,
                       raised |-> r.raised, held |-> Held(coord)]
           /\ written' = Record(r.raised, coord, Some(content))
           /\ UNCHANGED <<cache, callers>>

RenderTile ==
    \E coord \in Coords :
        LET r == renderTile(db, coord)
        IN /\ db' = r.db
           /\ last' = [op |-> "renderTile", coord |-> coord,
                       raised |-> r.raised, value |-> r.value]
           /\ UNCHANGED <<cache, written, callers>>

GetTypeByExtension ==
    /\ \E extension \in Extensions :
          LET r == getTypeByExtension(extension)
          IN last' = [op |-> "getTypeByExtension", extension |-> extension,
                      raised |-> r.raised, value |-> r.value]
    /\ UNCHANGED <<db, cache, written, callers>>

\* A caller constructs a TileResponse itself.
NewTileResponse ==
    /\ \E format \in ResponseFormats, content \in ResponseContents :
          last' = [op |-> "TileResponse", raised |-> NoException,
                   value |-> Some(TileResponse(format, content))]
    /\ UNCHANGED <<db, cache, written, callers>>

\* The consumer of the response just returned or constructed saves it.
Save ==
    /\ last.op \in {"renderTile", "TileResponse"}
    /\ last.raised = NoException
    /\ \E format \in SaveFormats, strict \in BOOLEAN :
          LET r == TileResponse_save(last.value[1], format, strict)
          IN last' = [op |-> "save", self |-> last.value[1], from |-> last.op,
                      format |-> format, raised |-> r.raised, value |-> r.value]
    /\ UNCHANGED <<db, cache, written, callers>>

CacheInit ==
    \E format \in CacheFormats :
        LET r == Cache_init(db, format, "roads")
        IN /\ db' = r.db
           /\ cache' = IF r.raised = NoException THEN Some("roads") ELSE cache
           /\ last' = [op |-> "Cache", format |-> format, raised |-> r.raised]
           /\ UNCHANGED <<written, callers>>

CacheRemove ==
    /\ cache # None
    /\ \E coord \in Coords :
          LET r == Cache_remove(db, coord)
          IN /\ db' = r.db
             /\ last' = [op |-> "Cache.remove", coord |-> coord, raised |-> r.raised]
             /\ written' = Record(r.raised, coord, None)
    /\ UNCHANGED <<cache, callers>>

CacheRead ==
    /\ cache # None
    /\ \E coord \in Coords :
          LET r == Cache_read(db, coord)
          IN /\ db' = r.db
             /\ last' = [op |-> "Cache.read", coord |-> coord,
                         raised |-> r.raised, value |-> r.value]
    /\ UNCHANGED <<cache, written, callers>>

CacheSave ==
    /\ cache # None
    /\ \E coord \in Coords, body \in Payloads :
          LET r == Cache_save(db, body, coord)
          IN /\ db' = r.db
             /\ last' = [op |-> "Cache.save", coord |-> coord, content |-> body,
                         raised |-> r.raised]
             /\ written' = Record(r.raised, coord, Some(body))
    /\ UNCHANGED <<cache, callers>>

Next ==
    \/ CreateTileset
    \/ TilesetExists
    \/ TilesetInfo
    \/ ListTiles
    \/ GetTile
    \/ DeleteTile
    \/ PutTile
    \/ RenderTile
    \/ GetTypeByExtension
    \/ NewTileResponse
    \/ Save
    \/ CacheInit
    \/ CacheRemove
    \/ CacheRead
    \/ CacheSave

Spec == Init /\ [][Next]_vars


(***************************************************************************)
(* Concurrent callers.  Each process of Procs runs the same functions on   *)
(* the same path, a statement at a time.  SQLite lets one connection write *)
(* at a time and makes the others wait (sqlite3's connect waits 5 seconds  *)
(* by default), so a transaction, from the statement that opens it to the  *)
(* commit or the rollback that ends it, is one step; the statements that   *)
(* the sqlite3 module runs outside of a transaction (CREATE TABLE, CREATE  *)
(* INDEX, SELECT) are steps of their own.  written is not kept up here.    *)
(***************************************************************************)

Return(p) == [callers EXCEPT ![p] = Idle]

\* p returns from put_tile having committed: the callers whose own put_tile is
\* in progress have been overtaken by a write to the coordinate they put.
ReturnFromPut(p, committed) ==
    [q \in Procs |->
        IF q = p THEN Idle
        ELSE IF committed /\ callers[q].pc = "put_replace"
        THEN [callers[q] EXCEPT !.raced = TRUE]
        ELSE callers[q]]

Goto(p, pc) == [callers EXCEPT ![p].pc = pc]

\* Cache(filename, 'PNG', 'roads') is called: tileset_exists(filename).  Its
\* two SELECTs find what a single probe at the second one finds, tables being
\* created and never dropped.
CacheInitCall(p) ==
    /\ callers[p].pc = "idle"
    /\ LET e == tileset_exists(db)
       IN /\ db' = e.db
          /\ IF e.value
             THEN /\ callers' = callers
                  /\ cache' = Some("roads")
                  /\ last' = [op |-> "Cache", raised |-> NoException]
             ELSE /\ callers' = [callers EXCEPT ![p] = [pc |-> "create_metadata"]]
                  /\ UNCHANGED <<cache, last>>
    /\ UNCHANGED written

\* A CREATE statement of create_tileset has been run: the call goes on to pc,
\* or ends with the exception raised.
Created(p, r, pc) ==
    /\ db' = r.db
    /\ IF r.raised = NoException
       THEN callers' = Goto(p, pc) /\ last' = last
       ELSE callers' = Return(p) /\ last' = [op |-> "Cache", raised |-> r.raised]
    /\ UNCHANGED <<cache, written>>

\* _connect(filename) and CREATE TABLE metadata of create_tileset.
CreateMetadataTable(p) ==
    /\ callers[p].pc = "create_metadata"
    /\ Created(p, CreateTable(connect(db), "metadata"), "create_tiles")

\* CREATE TABLE tiles of create_tileset.
CreateTilesTable(p) ==
    /\ callers[p].pc = "create_tiles"
    /\ Created(p, CreateTable(db, "tiles"), "create_index")

\* CREATE UNIQUE INDEX coord of create_tileset.
CreateCoordIndex(p) ==
    /\ callers[p].pc = "create_index"
    /\ Created(p, CreateUniqueIndex(db), "insert")

\* The INSERTs of create_tileset and db.commit(): Cache.__init__ returns.
InsertAndCommit(p) ==
    /\ callers[p].pc = "insert"
    /\ LET ins == InsertMetadata(db, << MetadataRow("name", "roads"),
                                        MetadataRow("type", "baselayer"),
                                        MetadataRow("version", "0"),
                                        MetadataRow("description", ""),
                                        MetadataRow("format", Lower("PNG")) >>)
       IN /\ db' = IF ins.raised = NoException THEN ins.db ELSE db
          /\ cache' = IF ins.raised = NoException THEN Some("roads") ELSE cache
          /\ last' = [op |-> "Cache", raised |-> ins.raised]
    /\ callers' = Return(p)
    /\ UNCHANGED written

\* tileset_exists(filename) is called and returns.
TilesetExistsCall(p) ==
    /\ callers[p].pc = "idle"
    /\ LET r == tileset_exists(db)
       IN /\ db' = r.db
          /\ last' = [op |-> "tileset_exists", raised |-> r.raised, value |-> r.value]
    /\ UNCHANGED <<cache, written, callers>>

\* put_tile(filename, RacedCoord, content) or Cache.save is called:
\* _connect(filename).
PutTileCall(p) ==
    /\ callers[p].pc = "idle"
    /\ \E content \in Payloads :
          callers' = [callers EXCEPT ![p] =
                        [pc |-> "put_replace", content |-> content, raced |-> FALSE]]
    /\ db' = connect(db)
    /\ UNCHANGED <<cache, last, written>>

\* REPLACE INTO tiles and db.commit() of put_tile: the call returns.
ReplaceAndCommit(p) ==
    /\ callers[p].pc = "put_replace"
    /\ LET r == put_tile(db, RacedCoord, callers[p].content)
       IN /\ db' = r.db
          /\ last' = [op |-> "put_tile", coord |-> RacedCoord,
                      content |-> callers[p].content, raised |-> r.raised]
          /\ callers' = ReturnFromPut(p, r.raised = NoException)
    /\ UNCHANGED <<cache, written>>

\* get_tile(filename, RacedCoord) is called: the SELECT of the format.
GetTileCall(p) ==
    /\ callers[p].pc = "idle"
    /\ LET g == get_tile_mime_type(connect(db))
       IN IF g.raised = NoException
          THEN /\ callers' = [callers EXCEPT ![p] =
                                [pc |-> "get_tile_data", mime_type |-> g.value]]
               /\ last' = last
          ELSE /\ callers' = callers
               /\ last' = [op |-> "get_tile", coord |-> RacedCoord,
                           raised |-> g.raised, value |-> None]
    /\ db' = connect(db)
    /\ UNCHANGED <<cache, written>>

\* The SELECT of tile_data of get_tile: the call returns the MIME type it
\* found before and the payload it finds now.
GetTileData(p) ==
    /\ callers[p].pc = "get_tile_data"
    /\ LET g == get_tile_content(db, RacedCoord)
       IN last' = [op |-> "get_tile", coord |-> RacedCoord, raised |-> g.raised,
                   value |-> IF g.raised = NoException
                             THEN << callers[p].mime_type, g.value >>
                             ELSE None]
    /\ callers' = Return(p)
    /\ UNCHANGED <<db, cache, written>>

\* delete_tile(filename, RacedCoord) is called and returns.
DeleteTileCall(p) ==
    /\ callers[p].pc = "idle"
    /\ LET r == delete_tile(db, RacedCoord)
       IN /\ db' = r.db
          /\ last' = [op |-> "delete_tile", coord |-> RacedCoord, raised |-> r.raised]
    /\ UNCHANGED <<cache, written, callers>>

NextConc ==
    \E p \in Procs :
        \/ CacheInitCall(p)
        \/ CreateMetadataTable(p)
        \/ CreateTilesTable(p)
        \/ CreateCoordIndex(p)
        \/ InsertAndCommit(p)
        \/ TilesetExistsCall(p)
        \/ PutTileCall(p)
        \/ ReplaceAndCommit(p)
        \/ GetTileCall(p)
        \/ GetTileData(p)
        \/ DeleteTileCall(p)

SpecConc == Init /\ [][NextConc]_vars

(***************************************************************************)
(* The vocabulary of the claims.                                           *)
(***************************************************************************)

\* CoordinateMapper.toStoredRow of the specification.
toStoredRow(row, zoom) == 2^zoom - 1 - row

\* The records stored under the StoredTileKey derived from coord.
RecordsAt(coord) ==
    {r \in db.tiles :
        /\ r.zoom_level = coord.zoom
        /\ r.tile_column = coord.column
        /\ r.tile_row = toStoredRow(coord.row, coord.zoom)}

\* The FormatRegistry table of the specification: token -> mimeType.
RegistryMime(token) ==
    CASE token = "png" -> "image/png"
      [] token = "jpg" -> "image/jpeg"
      [] token = "json" -> "application/json"
      [] token = "pbf" -> "application/x-protobuf"

\* The FormatRegistry table of the specification: token -> encoder.
RegistryEncoder(token) ==
    CASE token = "png" -> "PNG"
      [] token = "jpg" -> "JPEG"
      [] token = "json" -> "JSON"
      [] token = "pbf" -> "PBF"

\* exists(path) of the specification: both tables can be read.
TilesetPresent == db.file /\ "metadata" \in db.tables /\ "tiles" \in db.tables

\* The declared format of the tileset, once it has one.
DeclaredFormat == (CHOOSE m \in db.metadata : m.name = "format").value

HasFormat == \E m \in db.metadata : m.name = "format"

Completed(ops) == last.op \in ops /\ last.raised = NoException

\* C1: a completed putTile(coord, B), the empty payload included, followed by
\* getTile(coord) with no write to coord in between returns (mimeType, B),
\* mimeType being the registry's MIME type of the tileset's declared format.
C1_RoundTrip ==
    (last.op = "get_tile" /\ written[last.coord] # None)
        => /\ last.raised = NoException
           /\ last.value = << Some(RegistryMime(DeclaredFormat)), written[last.coord] >>

\* C2: once deleteTile (or Cache.remove) has returned for a coordinate, no
\* record is stored for it, and a later getTile or Cache.read of a coordinate
\* whose last write was a delete finds no payload; deleteTile on a coordinate
\* without a record of an existing tileset is not an error.
C2_DeleteThenGet ==
    /\ (last.op \in {"delete_tile", "Cache.remove"} /\ TilesetPresent)
          => last.raised = NoException /\ RecordsAt(last.coord) = {}
    /\ (Completed({"get_tile"}) /\ written[last.coord] = None) => last.value[2] = None
    /\ (Completed({"Cache.read"}) /\ written[last.coord] = None) => last.value = None

\* C3, as stated: getTile on a coordinate without a record in an existing
\* tileset returns (null, null) and does not raise.
C3_AbsentTileIsNullNull ==
    (last.op = "get_tile" /\ TilesetPresent /\ RecordsAt(last.coord) = {})
        => last.raised = NoException /\ last.value = << None, None >>

\* C3, amended: getTile on a coordinate without a record in an existing
\* tileset does not raise and returns (mimeType, null): the payload is null,
\* the MIME type is that of the tileset's declared format.
C3_AbsentTile ==
    (last.op = "get_tile" /\ TilesetPresent /\ RecordsAt(last.coord) = {})
        => /\ last.raised = NoException
           /\ last.value = << Some(RegistryMime(DeclaredFormat)), None >>

C3_Witness ==
    /\ Completed({"get_tile"})
    /\ TilesetPresent
    /\ RecordsAt(last.coord) = {}
    /\ db.tiles # {}
    /\ last.value = << Some("image/jpeg"), None >>

\* C4: at most one record per stored key (zoom_level, tile_column, tile_row);
\* a putTile to a coordinate that has a record replaces the payload, so each
\* coordinate written holds exactly the payload of the last putTile to it, and
\* when every record belongs to a coordinate written the number of records is
\* the number of distinct coordinates written.
C4_OneRecordPerKey ==
    /\ \A r, s \in db.tiles : SameKey(r, s) => r = s
    /\ \A c \in Coords : written[c] # None =>
          RecordsAt(c) = {TileRow(c.zoom, c.column, toStoredRow(c.row, c.zoom), written[c][1])}
    /\ (\A r \in db.tiles : \E c \in Coords : r \in RecordsAt(c) /\ written[c] # None)
          => Cardinality(db.tiles) = Cardinality({c \in Coords : written[c] # None})

C4_Witness ==
    /\ Completed({"put_tile"})
    /\ last.held # {}
    /\ last.held # {last.content}
    /\ Cardinality(db.tiles) = 2

\* C5: once a tileset has its format, no call changes the format or any
\* other metadata row: not putTile, deleteTile, getTile, listTiles, exists,
\* readMetadata, nor a Cache constructed with another format, nor another
\* create on the same path.
C5_MetadataNeverChanges == [][HasFormat => db'.metadata = db.metadata]_vars

C5_Witness ==
    /\ last.op = "create_tileset"
    /\ last.raised = "OperationalError"
    /\ HasFormat
    /\ last.format \in {"png", "jpg", "json", "pbf"}
    /\ last.format # DeclaredFormat
    /\ db.tiles # {}

\* C6: for every zoom >= 0 and 0 <= row < 2^zoom the row mapping lands in
\* [0, 2^zoom), is its own inverse, and is the same in putTile, getTile,
\* deleteTile and listTiles; distinct coordinates get distinct stored keys, and
\* every stored record lies inside its pyramid level.
C6_RowMapping ==
    /\ \A z \in 0..MaxMapZoom : \A row \in 0..(2^z - 1) :
          LET c == Coordinate(row, 0, z)
              y == put_tile_row(c)
          IN /\ y \in 0..(2^z - 1)
             /\ y = toStoredRow(row, z)
             /\ get_tile_row(c) = y
             /\ delete_tile_row(c) = y
             /\ list_tiles_row(y, z) = row
             /\ put_tile_row(Coordinate(y, 0, z)) = row
    /\ \A c1, c2 \in Coords :
          (c1.zoom = c2.zoom /\ c1.column = c2.column /\ put_tile_row(c1) = put_tile_row(c2))
              => c1 = c2
    /\ \A r \in db.tiles : r.tile_row \in 0..(2^r.zoom_level - 1)
    /\ Completed({"put_tile", "Cache.save"}) =>
          \E r \in db.tiles :
              /\ r.zoom_level = last.coord.zoom
              /\ r.tile_column = last.coord.column
              /\ r.tile_row = toStoredRow(last.coord.row, last.coord.zoom)

C6_Witness ==
    /\ Completed({"put_tile"})
    /\ last.coord = Coordinate(0, 0, 1)
    /\ \E r \in db.tiles : r.zoom_level = 1 /\ r.tile_column = 0 /\ r.tile_row = 1
    /\ \E r \in db.tiles : r.zoom_level = 1 /\ r.tile_column = 1 /\ r.tile_row = 0

Range(seq) == {seq[i] : i \in DOMAIN seq}

\* C7: listTiles yields one coordinate per stored record, and after putTile
\* calls at a set S of coordinates (none of them deleted since) it returns
\* exactly S, without duplicates, each coordinate as it was passed to putTile.
C7_ListTiles ==
    Completed({"list_tiles"}) =>
        /\ Len(last.value[1]) = Cardinality(db.tiles)
        /\ (\A r \in db.tiles : \E c \in Coords : r \in RecordsAt(c) /\ written[c] # None)
              => /\ Range(last.value[1]) = {c \in Coords : written[c] # None}
                 /\ Len(last.value[1]) = Cardinality({c \in Coords : written[c] # None})

C7_Witness ==
    /\ Completed({"list_tiles"})
    /\ Range(last.value[1]) = {Coordinate(0, 0, 1), Coordinate(1, 1, 1)}
    /\ written[Coordinate(0, 0, 0)] = None

\* C8: for a tile that is present, renderTile does not fail and returns the
\* stored bytes with the encoder the registry gives the declared format:
\* png -> PNG, jpg -> JPEG, json -> JSON, pbf -> PBF.  It is stated for the
\* records whose payload is not empty, the empty payload being C1's subject.
C8_RenderPresent ==
    (/\ last.op = "renderTile"
     /\ TilesetPresent
     /\ \E r \in RecordsAt(last.coord) : r.tile_data # <<>>)
        => /\ last.raised = NoException
           /\ last.value[1].format = Some(RegistryEncoder(DeclaredFormat))
           /\ \E r \in RecordsAt(last.coord) : last.value[1].content = Some(r.tile_data)

C10_SaveMismatch ==
    last.op = "save" =>
        /\ (last.self.format # None /\ Lower(last.format) # Lower(last.self.format[1]))
              => last.raised = "Exception" /\ last.value = None
        /\ last.self.format = None => last.raised # "Exception"
        /\ (last.from = "renderTile" /\ DeclaredFormat = "png" /\ last.format = "JPEG")
              => last.raised = "Exception"

C10_Witness ==
    /\ last.op = "save"
    /\ last.from = "renderTile"
    /\ DeclaredFormat = "png"
    /\ last.self = TileResponse(Some("PNG"), Some(<<1>>))
    /\ last.format = "JPEG"
    /\ last.raised = "Exception"
    /\ last.value = None

\* C11: resolveExtension(ext) returns, for every case variant of png, jpg,
\* json and pbf, exactly the registry's pair (mimeType, encoder), its MIME
\* type being the one getTile reports for a tileset of that format, and fails
\* for every other extension.
C11_ResolveExtension ==
    last.op = "getTypeByExtension" =>
        IF Lower(last.extension) \in {"png", "jpg", "json", "pbf"}
        THEN /\ last.raised = NoException
             /\ last.value = Some(<< RegistryMime(Lower(last.extension)),
                                     RegistryEncoder(Lower(last.extension)) >>)
             /\ Some(last.value[1][1]) = get_tile_formats[Some(Lower(last.extension))]
        ELSE last.raised # NoException
\* The metadata rows a Cache constructed with (format, name) writes when it
\* bootstraps the tileset.
PlaceholderMetadata(format, name) ==
    {MetadataRow("name", name), MetadataRow("type", "baselayer"),
     MetadataRow("version", "0"), MetadataRow("description", ""),
     MetadataRow("format", Lower(format))}

\* C12: when the construction of a Cache on a path where exists(path) is
\* false returns, exists(path) is true, no tile is stored and the metadata is
\* name = the given name, type = baselayer, version = "0", description = "",
\* format = the configured format (in lower case), and a Cache object is there
\* to save, read and remove with; the construction of a Cache on a path where
\* exists(path) is true returns and leaves metadata and tiles as they were.
C12_CacheBootstrap ==
    [][last'.op = "Cache" =>
         IF TilesetPresent
         THEN /\ last'.raised = NoException
              /\ db'.metadata = db.metadata
              /\ db'.tiles = db.tiles
         ELSE last'.raised = NoException =>
                 /\ TilesetPresent'
                 /\ db'.tiles = {}
                 /\ db'.metadata = PlaceholderMetadata(last'.format, "roads")
                 /\ cache' # None]_vars

C12_Witness ==
    /\ Completed({"Cache"})
    /\ last.format = "PNG"
    /\ TilesetPresent
    /\ db.tiles = {}
    /\ db.metadata = PlaceholderMetadata("PNG", "roads")
    /\ cache # None
\* C13: putTile against a tileset that does not exist fails with an error
\* instead of creating the tileset: no tile record is stored, and exists(path)
\* is false afterwards as it was before.
C13_PutWithoutTileset ==
    [][(last'.op = "put_tile" /\ ~tileset_exists(db).value) =>
          /\ last'.raised # NoException
          /\ db'.tiles = {}
          /\ db'.tables = db.tables
          /\ ~tileset_exists(db').value
          /\ ~TilesetPresent']_vars

C13_Witness ==
    /\ last.op = "put_tile"
    /\ last.content = <<1>>
    /\ last.raised = "OperationalError"
    /\ ~tileset_exists(db).value
    /\ db.tiles = {}
\* C14: create with a format outside {png, jpg, json, pbf} fails with the
\* unsupported-format error before it touches storage: no file and no table is
\* created, and the path holds what it held, so exists(path) is unchanged.
C14_CreateRejectsFormat ==
    [][(last'.op = "create_tileset" /\ last'.format \notin {"png", "jpg", "json", "pbf"}) =>
          /\ last'.raised = "Exception"
          /\ db' = db
          /\ tileset_exists(db').value = tileset_exists(db).value]_vars

C14_Witness ==
    /\ last.op = "create_tileset"
    /\ last.format = "gif"
    /\ last.raised = "Exception"
    /\ ~db.file
    /\ ~tileset_exists(db).value
\* The six keys of readMetadata, in the order of its result.
MetadataKeys == <<"name", "type", "version", "description", "format", "bounds">>

\* C16: readMetadata returns absent when exists(path) is false; otherwise it
\* returns the six values of name, type, version, description, format and
\* bounds in that order, a value being null only when its key has no row:
\* every key that has a row, a description that is the empty string included,
\* comes back with exactly the value stored.
C16_ReadMetadata ==
    last.op = "tileset_info" =>
        /\ last.raised = NoException
        /\ IF ~TilesetPresent
           THEN last.value = None
           ELSE last.value = Some([i \in 1..6 |-> FetchMetadata(db, MetadataKeys[i])])
\* C19: for a tileset of declared format f and a tile that is present, saving
\* the response renderTile returned, with the encoder name that
\* resolveExtension(f) returns as the requested format, raises nothing and
\* writes exactly the payload of the response.
C19_SaveRendered ==
    (/\ last.op = "save"
     /\ last.from = "renderTile"
     /\ last.self.content # None
     /\ HasFormat
     /\ getTypeByExtension(DeclaredFormat).value[1][2] = last.format)
        => /\ last.raised = NoException
           /\ last.value = last.self.content
\* The five metadata keys every tileset must have.
RequiredKeys == {"name", "type", "version", "description", "format"}

\* C15: exists(path) is false for a path that was never created and true
\* as soon as create has succeeded; a call of it never raises, and it returns
\* true exactly when the file is there and holds both the metadata table and
\* the tiles table, false for a file that lacks either.
C15_Exists ==
    [][/\ (\E p \in Procs : TilesetExistsCall(p)) =>
              /\ last'.raised = NoException
              /\ last'.value = (db.file /\ {"metadata", "tiles"} \subseteq db.tables)
       /\ ((\E p \in Procs : InsertAndCommit(p)) /\ last'.raised = NoException) =>
              tileset_exists(db').value
       /\ ~db.file => ~tileset_exists(db).value]_vars

C15_Witness ==
    /\ last.op = "tileset_exists"
    /\ last.value = FALSE
    /\ db.file
    /\ db.tables = {"metadata"}

\* C17: getTile never returns (null, payload): in every state reached by
\* create, Cache construction, putTile and deleteTile, interleaved among
\* concurrent callers, a getTile that returns a payload returns a MIME type
\* with it.
C17_MimeWithPayload ==
    (last.op = "get_tile" /\ last.raised = NoException /\ last.value[2] # None)
        => last.value[1] # None

\* C18: two writers put the same coordinate of an existing tileset at the
\* same time.  When the call that was overtaken by the other's commit returns,
\* it has completed without an error and the coordinate holds exactly one
\* record, whose payload is that of the later commit.
C18_ConcurrentWriters ==
    [][\A p \in Procs :
          (ReplaceAndCommit(p) /\ callers[p].raced /\ TilesetPresent) =>
              /\ last'.raised = NoException
              /\ {r \in db'.tiles : /\ r.zoom_level = RacedCoord.zoom
                                    /\ r.tile_column = RacedCoord.column
                                    /\ r.tile_row = toStoredRow(RacedCoord.row, RacedCoord.zoom)}
                     = {TileRow(RacedCoord.zoom, RacedCoord.column,
                                toStoredRow(RacedCoord.row, RacedCoord.zoom),
                                callers[p].content)}]_vars

\* C20: create is all-or-nothing for concurrent callers: whenever exists(path)
\* is true the five required metadata rows are there, and every Cache that is
\* constructed while others are, on a path that had no tileset, is constructed
\* without an error.
C20_CreateAllOrNothing ==
    /\ TilesetPresent => \A k \in RequiredKeys : \E m \in db.metadata : m.name = k
    /\ last.op = "Cache" => last.raised = NoException
====
